---------------------------- MODULE Spec2Model ----------------------------
(***************************************************************************)
(* Model of datafusion/functions/src/math/greatest.rs: the `greatest`      *)
(* scalar UDF (GreatestFunc) with its three entry points return_type,      *)
(* coerce_types and invoke, and the helpers find_coerced_type,             *)
(* keep_larger_scalar, get_larger and keep_larger.                         *)
(*                                                                         *)
(* A datum (cell) is [null, v, src]: null-ness, the value's rank in the    *)
(* native order of its type, and src, a ghost field holding the position   *)
(* of the argument the datum came from.  src is carried by clone() and by  *)
(* zip and is never read by a comparison; it makes "which operand supplied *)
(* the row" observable.                                                    *)
(***************************************************************************)
EXTENDS Integers, Sequences, FiniteSets, TLC

VARIABLES
    op,         \* entry point that was called: "none" before any call
    args,       \* &[ColumnarValue] handed to invoke
    types,      \* &[DataType] handed to return_type / coerce_types
    coercible,  \* the host's can_coerce_from relation, as <<into, from>> pairs
    result      \* what the entry point returned

vars == <<op, args, types, coercible, result>>

\* ------------------------------------------------------------------ bounds
MaxArgs == 3      \* longest argument list handed to invoke
MaxLen == 1       \* longest column
MaxVal == 1       \* values of a type are the ranks 0..MaxVal
MaxTypes == 3     \* longest type list handed to return_type / coerce_types

\* ------------------------------------------------------------- data types
NullType == "Null"
NonNullTypes == {"Int32", "Int64", "Utf8"}
DataTypes == NonNullTypes \cup {NullType}
ElemTypes == {"Int32", "Utf8"}

\* DataType::is_nested: lists, structs, maps, unions.
is_nested(ty) == ty \in {"List", "Struct"}

Min(a, b) == IF a <= b THEN a ELSE b

\* -------------------------------------------------------------- results
Ok(x) == [st |-> "Ok", val |-> <<x>>, err |-> ""]
Err(e) == [st |-> "Err", val |-> <<>>, err |-> e]
Panicked == [st |-> "Panic", val |-> <<>>, err |-> "called Option::unwrap() on a None value"]

ArityMsg == "Execution: greatest was called with {} arguments. It requires at least 2."
NoCommonTypeMsg == "Plan: Cannot find a common type for arguments"
DifferentTypesMsg == "Arrow: Cannot compare arrays of different types"
ZipTypeMsg == "Arrow: arguments need to have the same data type"
ZipLengthMsg == "Arrow: all arrays should have the same length"

\* What an entry point hands back to its caller.
NoResult ==
    [status |-> "None", kind |-> "", ty |-> "", cells |-> <<>>, types |-> <<>>,
     err |-> "", count |-> 0]
OkValue(cv) ==
    [status |-> "Ok", kind |-> cv.kind, ty |-> cv.ty, cells |-> cv.cells,
     types |-> <<>>, err |-> "", count |-> 0]
OkTypes(ts) ==
    [status |-> "Ok", kind |-> "Types", ty |-> "", cells |-> <<>>, types |-> ts,
     err |-> "", count |-> 0]
Failure(e, n) ==
    [status |-> "Err", kind |-> "", ty |-> "", cells |-> <<>>, types |-> <<>>,
     err |-> e, count |-> n]
PanicResult ==
    [status |-> "Panic", kind |-> "", ty |-> "", cells |-> <<>>, types |-> <<>>,
     err |-> Panicked.err, count |-> 0]

\* exec_err!("greatest was called with {} arguments. It requires at least 2.", n)
ArityError(n) == Failure(ArityMsg, n)

\* --------------------------------------------------------- columnar values
Scalar(ty, c) == [kind |-> "Scalar", ty |-> ty, cells |-> <<c>>]
Array(ty, cs) == [kind |-> "Array", ty |-> ty, cells |-> cs]

IsScalar(x) == x.kind = "Scalar"
IsArray(x) == x.kind = "Array"

\* ScalarValue::is_null
is_null(s) == s.cells[1].null

\* ScalarValue::to_array_of_size: n copies of the scalar, in the scalar's type.
to_array_of_size(s, n) == Array(s.ty, [i \in 1..n |-> s.cells[1]])

\* ScalarGe with `>` written for `>=`: a tie goes to the right operand.
ScalarGe_strict(lhs, rhs) ==
    /\ lhs.ty = rhs.ty
    /\ lhs.cells[1].v > rhs.cells[1].v

\* ScalarValue's PartialOrd, `lhs >= rhs`: values of one variant compare by
\* their native order, values of different variants are incomparable
\* (partial_cmp is None) and `>=` is then false.
ScalarGe(lhs, rhs) ==
    /\ lhs.ty = rhs.ty
    /\ lhs.cells[1].v >= rhs.cells[1].v

\* Compare with nulls_first: false, where a null is the greatest value.
Compare_nulls_last(a, b) ==
    IF a.null /\ b.null THEN 0
    ELSE IF a.null THEN 1
    ELSE IF b.null THEN -1
    ELSE IF a.v < b.v THEN -1
    ELSE IF a.v > b.v THEN 1
    ELSE 0

\* The ordering the comparator built with SORT_OPTIONS gives two cells:
\* ascending, nulls first.  -1: Less, 0: Equal, 1: Greater.
Compare(a, b) ==
    IF a.null /\ b.null THEN 0
    ELSE IF a.null THEN -1
    ELSE IF b.null THEN 1
    ELSE IF a.v < b.v THEN -1
    ELSE IF a.v > b.v THEN 1
    ELSE 0

\* make_comparator(lhs, rhs, SORT_OPTIONS): fails for arrays of two types.
make_comparator(lhs, rhs) ==
    IF lhs.ty # rhs.ty THEN Err(DifferentTypesMsg) ELSE Ok("cmp")

\* get_larger with is_gt for is_ge: a tie keeps the right operand.
get_larger_strict(lhs, rhs) ==
    LET cmp == make_comparator(lhs, rhs)
        len == Min(Len(lhs.cells), Len(rhs.cells))
    IN  IF cmp.st # "Ok" THEN cmp
        ELSE Ok([i \in 1..len |-> Compare(lhs.cells[i], rhs.cells[i]) > 0])

\* ----------------------------------------------------------- get_larger
get_larger(lhs, rhs) ==
    LET cmp == make_comparator(lhs, rhs)
        len == Min(Len(lhs.cells), Len(rhs.cells))
    IN  IF cmp.st # "Ok" THEN cmp
        ELSE Ok([i \in 1..len |-> Compare(lhs.cells[i], rhs.cells[i]) >= 0])

\* arrow::compute::kernels::zip::zip(mask, truthy, falsy) on two arrays.
zip(mask, truthy, falsy) ==
    IF truthy.ty # falsy.ty THEN Err(ZipTypeMsg)
    ELSE IF Len(truthy.cells) # Len(mask) \/ Len(falsy.cells) # Len(mask)
    THEN Err(ZipLengthMsg)
    ELSE Ok(Array(truthy.ty,
                  [i \in 1..Len(mask) |->
                      IF mask[i] THEN truthy.cells[i] ELSE falsy.cells[i]]))

\* keep_larger that cuts both columns to the mask's length before it
\* merges them.
keep_larger_truncating(lhs, rhs) ==
    LET keep_lhs == get_larger(lhs, rhs)
    IN  IF keep_lhs.st # "Ok" THEN keep_lhs
        ELSE zip(keep_lhs.val[1],
                 Array(lhs.ty, SubSeq(lhs.cells, 1, Len(keep_lhs.val[1]))),
                 Array(rhs.ty, SubSeq(rhs.cells, 1, Len(keep_lhs.val[1]))))

\* ---------------------------------------------------------- keep_larger
keep_larger(lhs, rhs) ==
    LET keep_lhs == get_larger(lhs, rhs)
    IN  IF keep_lhs.st # "Ok" THEN keep_lhs
        ELSE zip(keep_lhs.val[1], lhs, rhs)

\* --------------------------------------------------- keep_larger_scalar
keep_larger_scalar(lhs, rhs) ==
    IF is_null(lhs) THEN Ok(rhs)
    ELSE IF is_null(rhs) THEN Ok(lhs)
    ELSE IF ~is_nested(lhs.ty)
    THEN (IF ScalarGe(lhs, rhs) THEN Ok(lhs) ELSE Ok(rhs))
    ELSE LET cmp == make_comparator(to_array_of_size(lhs, 1), to_array_of_size(rhs, 1))
         IN  IF cmp.st # "Ok" THEN cmp
             ELSE IF Compare(lhs.cells[1], rhs.cells[1]) >= 0 THEN Ok(lhs)
             ELSE Ok(rhs)

\* ----------------------------------------------------- find_coerced_type
\* datafusion_expr::type_coercion::functions::can_coerce_from(into, from),
\* the host's one-directional "coercible into" predicate: a type is coercible
\* into itself, every other pair is as the host says.
can_coerce_from(rel, type_into, type_from) ==
    type_into = type_from \/ <<type_into, type_from>> \in rel

\* for data_type in &non_null_types { all(can_coerce_from) => return; } plan_err!
RECURSIVE FirstCommonType(_, _, _)
FirstCommonType(rel, non_null_types, i) ==
    IF i > Len(non_null_types) THEN Err(NoCommonTypeMsg)
    ELSE IF \A j \in 1..Len(non_null_types) :
                can_coerce_from(rel, non_null_types[i], non_null_types[j])
    THEN Ok(non_null_types[i])
    ELSE FirstCommonType(rel, non_null_types, i + 1)

\* find_coerced_type that goes through the candidates from the last one.
RECURSIVE LastCommonType(_, _, _)
LastCommonType(rel, non_null_types, i) ==
    IF i < 1 THEN Err(NoCommonTypeMsg)
    ELSE IF \A j \in 1..Len(non_null_types) :
                can_coerce_from(rel, non_null_types[i], non_null_types[j])
    THEN Ok(non_null_types[i])
    ELSE LastCommonType(rel, non_null_types, i - 1)

find_coerced_type_last(data_types, rel) ==
    LET NotNull(t) == t # NullType
        non_null_types == SelectSeq(data_types, NotNull)
    IN  IF non_null_types = <<>> THEN Ok(NullType)
        ELSE LastCommonType(rel, non_null_types, Len(non_null_types))

find_coerced_type(data_types, rel) ==
    LET NotNull(t) == t # NullType
        non_null_types == SelectSeq(data_types, NotNull)
    IN  IF non_null_types = <<>> THEN Ok(NullType)
        ELSE FirstCommonType(rel, non_null_types, 1)

\* ------------------------------------------------------------ return_type
\* return_type with the arity check of coerce_types in front.
return_type_checked(arg_types, rel) ==
    IF Len(arg_types) < 2 THEN ArityError(Len(arg_types))
    ELSE LET r == find_coerced_type(arg_types, rel)
         IN  IF r.st = "Ok" THEN OkTypes(<<r.val[1]>>) ELSE Failure(r.err, 0)

return_type(arg_types, rel) ==
    LET r == find_coerced_type(arg_types, rel)
    IN  IF r.st = "Ok" THEN OkTypes(<<r.val[1]>>) ELSE Failure(r.err, 0)

\* ----------------------------------------------------------- coerce_types
\* coerce_types that lets a single type through (`< 1` for `< 2`).
coerce_types_min1(arg_types, rel) ==
    IF Len(arg_types) < 1 THEN ArityError(Len(arg_types))
    ELSE LET coerced_type == find_coerced_type(arg_types, rel)
         IN  IF coerced_type.st # "Ok" THEN Failure(coerced_type.err, 0)
             ELSE OkTypes([i \in 1..Len(arg_types) |-> coerced_type.val[1]])

coerce_types(arg_types, rel) ==
    IF Len(arg_types) < 2 THEN ArityError(Len(arg_types))
    ELSE LET coerced_type == find_coerced_type(arg_types, rel)
         IN  IF coerced_type.st # "Ok" THEN Failure(coerced_type.err, 0)
             ELSE OkTypes([i \in 1..Len(arg_types) |-> coerced_type.val[1]])

\* ----------------------------------------------------------------- invoke
\* partition with the predicate matching the columns: the groups change places.
partition_swapped(a) ==
    <<SelectSeq(a, LAMBDA x : ~IsScalar(x)), SelectSeq(a, IsScalar)>>

\* args.iter().partition(|x| matches!(x, ColumnarValue::Scalar(_)))
partition(a) == <<SelectSeq(a, IsScalar), SelectSeq(a, LAMBDA x : ~IsScalar(x))>>

\* for scalar in scalars_iter { largest_scalar = keep_larger_scalar(..)? }
RECURSIVE FoldScalars(_, _)
FoldScalars(largest_scalar, rest) ==
    IF rest = <<>> THEN Ok(largest_scalar)
    ELSE LET r == keep_larger_scalar(largest_scalar, Head(rest))
         IN  IF r.st # "Ok" THEN r ELSE FoldScalars(r.val[1], Tail(rest))

\* The merged scalar, an Option inside a Result: val is <<>> for None.
\* A non-scalar in the scalar group hits unreachable!(), an empty iterator
\* makes next().unwrap() panic.
merged_scalar(scalars) ==
    IF scalars # <<>>
    THEN (IF \E i \in 1..Len(scalars) : ~IsScalar(scalars[i]) THEN Panicked
          ELSE FoldScalars(Head(scalars), Tail(scalars)))
    ELSE [st |-> "Ok", val |-> <<>>, err |-> ""]

\* for array in arrays_iter { largest = keep_larger(largest, array.clone())? }
RECURSIVE FoldArrays(_, _)
FoldArrays(largest, rest) ==
    IF rest = <<>> THEN Ok(largest)
    ELSE LET r == keep_larger(largest, Head(rest))
         IN  IF r.st # "Ok" THEN r ELSE FoldArrays(r.val[1], Tail(rest))

\* seed_largest that starts from the first array and forgets the merged scalar.
seed_largest_no_scalar(first_array, merged) == Ok(first_array)

\* The running result after the first array: combined with the merged
\* scalar when there is one, the first array itself otherwise.
seed_largest(first_array, merged) ==
    IF merged # <<>>
    THEN keep_larger(first_array,
                     to_array_of_size(merged[1], Len(first_array.cells)))
    ELSE Ok(first_array)

\* Result<_> of a helper as the entry point's return: `?` hands the error on,
\* a panic unwinds through it.
Propagate(r) == IF r.st = "Panic" THEN PanicResult ELSE Failure(r.err, 0)

invoke(a) ==
    IF Len(a) < 2 THEN ArityError(Len(a))
    ELSE
    LET scalars == partition(a)[1]
        arrays == partition(a)[2]
        arrays_iter == SelectSeq(arrays, IsArray)
        first_array == IF arrays_iter = <<>> THEN <<>> ELSE <<Head(arrays_iter)>>
        merged == merged_scalar(scalars)
    IN  IF merged.st # "Ok" THEN Propagate(merged)
        ELSE IF arrays = <<>>
        THEN (IF merged.val = <<>> THEN PanicResult ELSE OkValue(merged.val[1]))
        ELSE IF first_array = <<>> THEN PanicResult
        ELSE LET seeded == seed_largest(first_array[1], merged.val)
             IN  IF seeded.st # "Ok" THEN Propagate(seeded)
                 ELSE LET largest == FoldArrays(seeded.val[1], Tail(arrays_iter))
                      IN  IF largest.st # "Ok" THEN Propagate(largest)
                          ELSE OkValue(largest.val[1])

\* ------------------------------------------------------------ the inputs
Cells == [null : {FALSE}, v : 0..MaxVal] \cup {[null |-> TRUE, v |-> 0]}

SeqsUpTo(S, n) == UNION {[1..k -> S] : k \in 0..n}

\* The ColumnarValues of one element type, before they are given a place
\* in an argument list.
InputsOf(ty) ==
    {[kind |-> "Scalar", ty |-> ty, cells |-> <<c>>] : c \in Cells}
    \cup {[kind |-> "Array", ty |-> ty, cells |-> cs] : cs \in SeqsUpTo(Cells, MaxLen)}

Inputs == UNION {InputsOf(ty) : ty \in ElemTypes}

\* The argument list with every datum marked with its argument's position.
Positioned(a) ==
    [i \in 1..Len(a) |->
        [kind |-> a[i].kind, ty |-> a[i].ty,
         cells |-> [k \in 1..Len(a[i].cells) |->
                       [null |-> a[i].cells[k].null, v |-> a[i].cells[k].v,
                        src |-> i]]]]

Relations == SUBSET {p \in NonNullTypes \X NonNullTypes : p[1] # p[2]}

\* ------------------------------------------------------- the state machine
Init ==
    /\ op = "none"
    /\ args = <<>>
    /\ types = <<>>
    /\ coercible = {}
    /\ result = NoResult

\* invoke as the planner calls it: coerce_types has been applied and every
\* argument has been cast to the one resolved type.
Invoke ==
    /\ op = "none"
    /\ \E ty \in ElemTypes : \E n \in 0..MaxArgs : \E a \in [1..n -> InputsOf(ty)] :
        /\ op' = "invoke"
        /\ args' = Positioned(a)
        /\ result' = invoke(args')
    /\ UNCHANGED <<types, coercible>>

\* invoke called directly, with arguments of any element types.
InvokeAny ==
    /\ op = "none"
    /\ \E n \in 0..MaxArgs : \E a \in [1..n -> Inputs] :
        /\ op' = "invoke"
        /\ args' = Positioned(a)
        /\ result' = invoke(args')
    /\ UNCHANGED <<types, coercible>>

ReturnType ==
    /\ op = "none"
    /\ \E n \in 0..MaxTypes : \E ts \in [1..n -> DataTypes] : \E rel \in Relations :
        /\ op' = "return_type"
        /\ types' = ts
        /\ coercible' = rel
        /\ result' = return_type(ts, rel)
    /\ UNCHANGED args

CoerceTypes ==
    /\ op = "none"
    /\ \E n \in 0..MaxTypes : \E ts \in [1..n -> DataTypes] : \E rel \in Relations :
        /\ op' = "coerce_types"
        /\ types' = ts
        /\ coercible' = rel
        /\ result' = coerce_types(ts, rel)
    /\ UNCHANGED args

Next == Invoke \/ ReturnType \/ CoerceTypes

Spec == Init /\ [][Next]_vars

NextAny == InvokeAny

SpecAny == Init /\ [][NextAny]_vars

\* ------------------------------------------------- vocabulary of the claims
Called(a) == op = "invoke" /\ Len(a) >= 2

SameTyped(a) == \A i, j \in 1..Len(a) : a[i].ty = a[j].ty
HasColumn(a) == \E i \in 1..Len(a) : IsArray(a[i])
HasScalar(a) == \E i \in 1..Len(a) : IsScalar(a[i])
EqualLen(a) ==
    \A i, j \in 1..Len(a) :
        IsArray(a[i]) /\ IsArray(a[j]) => Len(a[i].cells) = Len(a[j].cells)

\* The row count of a call that has a column (its first column's), 1 for an
\* all-scalar call, whose single value stands for every row.
RowCount(a) ==
    IF HasColumn(a)
    THEN Len(a[CHOOSE k \in 1..Len(a) :
                   IsArray(a[k]) /\ \A m \in 1..(k - 1) : IsScalar(a[m])].cells)
    ELSE 1

\* The datum an argument contributes to row i: a scalar is the same in every row.
CellAt(x, i) == IF IsScalar(x) THEN x.cells[1] ELSE x.cells[i]

\* A datum without its ghost field.
Val(c) == [null |-> c.null, v |-> c.v]
NullVal == [null |-> TRUE, v |-> 0]

\* The null-minimizing maximum of the inputs at row i.
GreatestAt(a, i) ==
    LET present == {k \in 1..Len(a) : ~CellAt(a[k], i).null}
    IN  IF present = {} THEN NullVal
        ELSE LET m == CHOOSE k \in present :
                        \A j \in present : CellAt(a[j], i).v <= CellAt(a[k], i).v
             IN  Val(CellAt(a[m], i))

\* The arguments that hold the (non-null) maximum at row i.
TiedAt(a, i) ==
    {k \in 1..Len(a) :
        /\ ~CellAt(a[k], i).null
        /\ \A j \in 1..Len(a) :
              CellAt(a[j], i).null \/ CellAt(a[j], i).v <= CellAt(a[k], i).v}

\* ------------------------------------------------------------------- C1
\* C1: for at least 2 same-typed inputs whose columns have one length L,
\* invoke succeeds and its result at every row is the null-minimizing
\* maximum of the inputs at that row: null only if every input is null
\* there, the greatest non-null value otherwise.  With no column the result
\* is that one value as a scalar.
C1_NullMinimizingMax ==
    (Called(args) /\ SameTyped(args) /\ EqualLen(args)) =>
        /\ result.status = "Ok"
        /\ result.ty = args[1].ty
        /\ result.kind = (IF HasColumn(args) THEN "Array" ELSE "Scalar")
        /\ Len(result.cells) = RowCount(args)
        /\ \A i \in 1..RowCount(args) :
              Val(result.cells[i]) = GreatestAt(args, i)

\* A scalar and two columns, one of them null and the other two different
\* at the row, and the greater of the two returned.
C1_Witness ==
    /\ Called(args) /\ Len(args) = 3 /\ HasScalar(args) /\ HasColumn(args)
    /\ RowCount(args) = 1
    /\ \E i, j, k \in 1..3 :
          /\ CellAt(args[i], 1).null
          /\ ~CellAt(args[j], 1).null /\ ~CellAt(args[k], 1).null
          /\ CellAt(args[j], 1).v < CellAt(args[k], 1).v
          /\ result.status = "Ok" /\ result.cells[1] = CellAt(args[k], 1)

\* ------------------------------------------------------------------- C2
\* C2: invoke and coerce_types both answer an argument list of length 0 or
\* 1 with the same arity error carrying the actual count (not a panic, not
\* the outcome of type resolution or of a comparison), and neither returns
\* the arity error for 2 or more arguments.
C2_ArityRejected ==
    /\ (op = "invoke" /\ Len(args) < 2) => result = ArityError(Len(args))
    /\ (op = "invoke" /\ Len(args) >= 2) => result.err # ArityMsg
    /\ (op = "coerce_types" /\ Len(types) < 2) => result = ArityError(Len(types))
    /\ (op = "coerce_types" /\ Len(types) >= 2) => result.err # ArityMsg

\* coerce_types called with one type and rejected with count 1.
C2_Witness ==
    /\ op = "coerce_types" /\ Len(types) = 1 /\ types[1] # NullType
    /\ result.status = "Err" /\ result.err = ArityMsg /\ result.count = 1

\* ------------------------------------------------------------------- C3
\* C3 as stated: return_type fails with the arity error, carrying the
\* count, when it is given fewer than 2 types.
C3_ReturnTypeArityError ==
    (op = "return_type" /\ Len(types) < 2) => result = ArityError(Len(types))

\* C3 (amended): return_type makes no arity check.  Given 0 or 1 types it
\* returns what find_coerced_type returns: Null for the empty list and for
\* the single type Null, the single type itself otherwise.
C3_ReturnTypeNoArityCheck ==
    (op = "return_type" /\ Len(types) < 2) =>
        result = OkTypes(<<IF types = <<>> THEN NullType ELSE types[1]>>)

\* return_type called with one non-null type and returning it.
C3_Witness ==
    /\ op = "return_type" /\ Len(types) = 1 /\ types[1] # NullType
    /\ result.status = "Ok" /\ result.types = <<types[1]>>

\* ------------------------------------------------------------------- C4
\* The declared types that are not Null, in argument order.
NonNull(ts) == SelectSeq(ts, LAMBDA t : t # NullType)

\* Whether every non-null declared type is coercible into the n-th of them.
Qualifies(ts, n) ==
    \A j \in 1..Len(NonNull(ts)) :
        can_coerce_from(coercible, NonNull(ts)[n], NonNull(ts)[j])

\* The planning entry point answered with the type t for every argument.
ResolvedTo(t) ==
    result = OkTypes([i \in 1..(IF op = "return_type" THEN 1 ELSE Len(types)) |-> t])

\* C4: resolution ignores every Null; it gives Null when nothing remains,
\* otherwise the first remaining type, in argument order, into which every
\* remaining type is coercible, never a later one; and it fails with the
\* planning error exactly when no remaining type qualifies.
C4_FirstCommonTypeWins ==
    (op = "return_type" \/ (op = "coerce_types" /\ Len(types) >= 2)) =>
        /\ NonNull(types) = <<>> => ResolvedTo(NullType)
        /\ \A n \in 1..Len(NonNull(types)) :
              (Qualifies(types, n) /\ \A m \in 1..(n - 1) : ~Qualifies(types, m))
                  => ResolvedTo(NonNull(types)[n])
        /\ (result = Failure(NoCommonTypeMsg, 0)) <=>
              (NonNull(types) # <<>>
               /\ \A n \in 1..Len(NonNull(types)) : ~Qualifies(types, n))

\* A list with a Null in it and two different types that both qualify,
\* resolved to the earlier one.
C4_Witness ==
    /\ op = "return_type"
    /\ \E i \in 1..Len(types) : types[i] = NullType
    /\ Len(NonNull(types)) = 2
    /\ NonNull(types)[1] # NonNull(types)[2]
    /\ Qualifies(types, 1) /\ Qualifies(types, 2)
    /\ result = OkTypes(<<NonNull(types)[1]>>)

\* ------------------------------------------------------------------- C5
\* What the claim says keep_greater(a, b) is.
KeepGreater(a, b) ==
    IF a.cells[1].null THEN b
    ELSE IF b.cells[1].null THEN a
    ELSE IF a.cells[1].v >= b.cells[1].v THEN a
    ELSE b

\* C5: on same-typed non-nested values keep_larger_scalar always succeeds;
\* it returns b when a is null, a when only b is null, and otherwise a if
\* a >= b and b if not, so that a tie returns the left operand and
\* keep_larger_scalar(v, v) = v.
C5_KeepLargerScalar ==
    op = "invoke" =>
        \A i, j \in 1..Len(args) :
            (IsScalar(args[i]) /\ IsScalar(args[j]) /\ args[i].ty = args[j].ty) =>
                keep_larger_scalar(args[i], args[j]) = Ok(KeepGreater(args[i], args[j]))

\* Two equal non-null scalars, and invoke returning the left one.
C5_Witness ==
    /\ Called(args) /\ Len(args) = 2
    /\ IsScalar(args[1]) /\ IsScalar(args[2])
    /\ ~args[1].cells[1].null /\ ~args[2].cells[1].null
    /\ args[1].cells[1].v = args[2].cells[1].v
    /\ result.status = "Ok" /\ result.cells[1].src = 1

\* ------------------------------------------------------------------- C6
\* The argument list with the scalar at i passed as n rows of its value.
AsColumn(a, i, n) == Positioned([a EXCEPT ![i] = to_array_of_size(a[i], n)])

\* The argument list with the constant column at i passed as a scalar.
AsScalar(a, i) == Positioned([a EXCEPT ![i] = Scalar(a[i].ty, a[i].cells[1])])

\* The argument list with the neighbours i and i + 1 exchanged.
Exchanged(a, i) == Positioned([a EXCEPT ![i] = a[i + 1], ![i + 1] = a[i]])

IsConstant(x) ==
    /\ IsArray(x) /\ Len(x.cells) >= 1
    /\ \A k \in 1..Len(x.cells) : Val(x.cells[k]) = Val(x.cells[1])

\* The row counts a call may be meant for: its columns' length, any length
\* when it has no column.
RowCounts(a) == IF HasColumn(a) THEN {RowCount(a)} ELSE 0..MaxLen

\* The argument lists one step away: one scalar passed as its broadcast
\* column, one constant column passed as a scalar, or a scalar and a column
\* next to each other exchanged, which keeps the order within each group.
Rearranged(a) ==
    {AsColumn(a, i, n) : i \in {k \in 1..Len(a) : IsScalar(a[k])}, n \in RowCounts(a)}
    \cup {AsScalar(a, i) : i \in {k \in 1..Len(a) : IsConstant(a[k])}}
    \cup {Exchanged(a, i) : i \in {k \in 1..(Len(a) - 1) : a[k].kind # a[k + 1].kind}}

\* The values of n rows of a returned Input, a scalar standing for every row.
RowValues(r, n) ==
    IF r.status # "Ok" THEN <<r.status>>
    ELSE IF r.kind = "Scalar" THEN [k \in 1..n |-> Val(r.cells[1])]
    ELSE [k \in 1..Len(r.cells) |-> Val(r.cells[k])]

\* The row count two argument lists share: that of whichever has a column.
SharedRows(a, b) == IF HasColumn(a) THEN RowCount(a) ELSE RowCount(b)

\* C6: for same-typed inputs and one row count, the value at every row does
\* not depend on which arguments are scalars and which are columns holding
\* that value in every row: every argument list one rearrangement away
\* gives the same rows, and so does, step by step, every list further away.
C6_ScalarColumnSplitIrrelevant ==
    (Called(args) /\ SameTyped(args) /\ EqualLen(args)) =>
        \A b \in Rearranged(args) :
            RowValues(invoke(b), SharedRows(args, b))
                = RowValues(result, SharedRows(args, b))

\* A call with a scalar next to a one-row column, which can be rearranged
\* in each of the three ways.
C6_Witness ==
    /\ Called(args) /\ Len(args) = 3 /\ result.status = "Ok"
    /\ IsScalar(args[1]) /\ IsConstant(args[2]) /\ IsScalar(args[3])
    /\ ~args[1].cells[1].null /\ args[3].cells[1].null
    /\ Cardinality(Rearranged(args)) >= 5

\* ------------------------------------------------------------------- C7
\* C7: invoke given at least 2 arguments of different element types (an
\* integer one and a string one) returns an error, never a value or a
\* column as if the comparison had succeeded.
C7_MixedTypesRejected ==
    (Called(args) /\ ~SameTyped(args)) => result.status = "Err"

\* ------------------------------------------------------------------- C8
ColumnLens(a) == {Len(a[k].cells) : k \in {i \in 1..Len(a) : IsArray(a[i])}}
ShortestLen(a) == CHOOSE n \in ColumnLens(a) : \A m \in ColumnLens(a) : n <= m

ScalarsThenColumns(a, k) == IF IsScalar(a[k]) THEN k ELSE Len(a) + k

\* The place of argument k in the order of evaluation of invoke: the first
\* column, which is the left operand of the seeding step, then the scalars
\* left to right, then the other columns left to right.
FirstColumnThenScalars(a, k) ==
    IF IsScalar(a[k]) THEN k
    ELSE IF \A m \in 1..(k - 1) : IsScalar(a[m]) THEN 0
    ELSE Len(a) + k

\* At every row whose maximum is not null, the argument that supplied the
\* result is the first, in the given order, of those holding the maximum.
SuppliedByFirstOf(Place(_, _)) ==
    \A i \in 1..RowCount(args) :
        LET tied == TiedAt(args, i)
            from == result.cells[i].src
        IN  tied # {} =>
                /\ from \in tied
                /\ \A k \in tied : Place(args, from) <= Place(args, k)

\* C9 as stated: among operands that are equal and the maximum at a row,
\* the merged scalar comes before every column, and the leftmost of tied
\* scalars and of tied columns wins.
C9_ScalarBeforeColumns ==
    (Called(args) /\ SameTyped(args) /\ EqualLen(args) /\ result.status = "Ok") =>
        SuppliedByFirstOf(ScalarsThenColumns)

\* C9 (amended): among non-null operands that are equal and the maximum at
\* a row, invoke keeps the earliest in the order "first column, then the
\* scalars left to right, then the other columns left to right": the first
\* column is the left operand of the seeding step and wins a tie with the
\* merged scalar, which in turn wins a tie with every later column.
C9_FirstColumnBeforeScalars ==
    (Called(args) /\ SameTyped(args) /\ EqualLen(args) /\ result.status = "Ok") =>
        SuppliedByFirstOf(FirstColumnThenScalars)

\* A scalar, a column and a second column, all equal and not null at the
\* row: the first column, the second argument, supplies it.
C9_Witness ==
    /\ Called(args) /\ Len(args) = 3
    /\ IsScalar(args[1]) /\ IsArray(args[2]) /\ IsArray(args[3])
    /\ RowCount(args) = 1 /\ EqualLen(args)
    /\ TiedAt(args, 1) = {1, 2, 3}
    /\ result.status = "Ok" /\ result.cells[1].src = 2

=============================================================================
